---------------------------- MODULE Spec2Model ----------------------------
(***************************************************************************)
(* A model of process_van (src/src/process_van.py): one run of main().     *)
(*                                                                         *)
(* A table (pandas DataFrame) is a sequence of rows; a row is a record of  *)
(* its cells plus idx, the row's pandas index label.  Every cell is a      *)
(* string; Null is the missing cell (NaN / None), which read_csv produces  *)
(* for an empty field.  All columns are of object dtype (strings and       *)
(* missing cells), as they are for a portfolio export that holds header    *)
(* rows.  The date suffix of the output file names is left out: an output  *)
(* file is identified by its name without the suffix.                      *)
(***************************************************************************)
EXTENDS Integers, Sequences, FiniteSets, TLC

VARIABLES
    pc,       \* position of main(): the call it makes next, or how it ended
    args,     \* the parsed command line: mode, quiet, fixed
    files,    \* the input files: csv, html, class_map, asset_map
    vadf,     \* main's vadf (and write_results' local vadf once it rebinds it)
    cmdf,     \* main's cmdf: the Class Map
    amdf,     \* main's amdf: the Asset Map
    stdout,   \* the messages printed so far, in order
    written,  \* the output files written so far, in order
    status    \* the exception that ended the run, or the exit status

vars == <<pc, args, files, vadf, cmdf, amdf, stdout, written, status>>

-----------------------------------------------------------------------------
(* Cells and strings *)

\* a missing cell: np.nan / None
Null == "NaN"

\* str.startswith(prefix)
StartsWith(s, prefix) ==
    /\ Len(s) >= Len(prefix)
    /\ SubSeq(s, 1, Len(prefix)) = prefix

\* re.search of a literal pattern: an unanchored, case-sensitive substring match
Contains(s, pat) ==
    \E i \in 1..(Len(s) - Len(pat) + 1) : SubSeq(s, i, i + Len(pat) - 1) = pat

\* fixed_regex = re.compile(r"(UNITED STATES TREAS|CPN|NTS)"); fixed_regex.search(name)
FixedRegexSearch(name) ==
    \/ Contains(name, "UNITED STATES TREAS")
    \/ Contains(name, "CPN")
    \/ Contains(name, "NTS")

\* the characters of the modelled strings in code point order
Alphabet == " %&.0123456789:ABCDEFGHIJKLMNOPQRSTUVWXYZabcdefghijklmnopqrstuvwxyz"

CharRank(c) == CHOOSE i \in 1..Len(Alphabet) : SubSeq(Alphabet, i, i) = c

\* Python's < on two strings: by code point, a proper prefix first
RECURSIVE StrLess(_, _)
StrLess(a, b) ==
    IF Len(b) = 0 THEN FALSE
    ELSE IF Len(a) = 0 THEN TRUE
    ELSE LET ca == CharRank(SubSeq(a, 1, 1))
             cb == CharRank(SubSeq(b, 1, 1))
         IN  IF ca # cb THEN ca < cb
             ELSE StrLess(SubSeq(a, 2, Len(a)), SubSeq(b, 2, Len(b)))

\* the elements of a sequence
Range(s) == {s[i] : i \in DOMAIN s}

-----------------------------------------------------------------------------
(* Tables *)

PortfolioColumns == {"Account Name", "Fund Name", "Symbol", "Value", "% of Portfolio"}
ClassMapColumns == {"Class", "ClassMap", "Order"}
AssetMapColumns == {"Name", "Class", "%"}

\* a DataFrame: its column labels and its rows; a row is a function from the
\* column labels and "idx" (the row's index label) to cells
Table(cols, rows) == [cols |-> cols, rows |-> rows]

\* pd.DataFrame()
EmptyFrame == Table({}, <<>>)

\* int(s) of a string of decimal digits
RECURSIVE ParseNat(_)
ParseNat(s) ==
    IF Len(s) = 0 THEN 0
    ELSE 10 * ParseNat(SubSeq(s, 1, Len(s) - 1))
         + (CharRank(SubSeq(s, Len(s), Len(s))) - CharRank("0"))

\* the rows of a file as read_csv returns them: index labels 0..n-1
RECURSIVE WithIndex(_)
WithIndex(rows) ==
    IF rows = <<>> THEN <<>>
    ELSE Append(WithIndex(SubSeq(rows, 1, Len(rows) - 1)),
                [idx |-> Len(rows) - 1] @@ rows[Len(rows)])

\* reset_index(drop=True): the index labels become 0..n-1 again
ResetIndex(rows) == [i \in DOMAIN rows |-> [rows[i] EXCEPT !.idx = i - 1]]

\* to_csv(..., index=False): the rows without their index labels
NoIndex(rows) ==
    [i \in DOMAIN rows |-> [c \in DOMAIN rows[i] \ {"idx"} |-> rows[i][c]]]

\* series.isin(df[col])
IsIn(cell, rows, col) == \E i \in DOMAIN rows : rows[i][col] = cell

\* dict(zip(df[kcol], df[vcol])) of the first n rows: a later row overwrites an
\* earlier one with the same key
RECURSIVE DictZipTo(_, _, _, _)
DictZipTo(rows, kcol, vcol, n) ==
    IF n = 0 THEN [k \in {} |-> Null]
    ELSE LET d == DictZipTo(rows, kcol, vcol, n - 1)
         IN  [k \in DOMAIN d \cup {rows[n][kcol]} |->
                 IF k = rows[n][kcol] THEN rows[n][vcol] ELSE d[k]]

DictZip(rows, kcol, vcol) == DictZipTo(rows, kcol, vcol, Len(rows))

\* series.map(d) for one cell: a cell that is no key maps to NaN
MapCell(cell, d) == IF cell \in DOMAIN d THEN d[cell] ELSE Null

-----------------------------------------------------------------------------
(* csv_post_process *)

\* the Class column inserted empty: header lines seed nothing
InsertClass_unseeded(rows) == [i \in DOMAIN rows |-> ("Class" :> Null) @@ rows[i]]

\* vadf.insert(0, "Class", vadf.Value.where(vadf.Value == "Value", None))
InsertClass(rows) ==
    [i \in DOMAIN rows |->
        ("Class" :> (IF rows[i]["Value"] = "Value" THEN rows[i]["Value"] ELSE Null))
        @@ rows[i]]

\* vadf.rename(columns={"Account Name": "Account", "Fund Name": "Name"})
RenameLabel(c) ==
    IF c = "Account Name" THEN "Account" ELSE IF c = "Fund Name" THEN "Name" ELSE c

RenameColumns(rows) ==
    [i \in DOMAIN rows |->
        [c \in {RenameLabel(o) : o \in DOMAIN rows[i]} |->
            rows[i][CHOOSE o \in DOMAIN rows[i] : RenameLabel(o) = c]]]

\* the Account copied only where there is one: a seeded "Value" stays on a
\* line without it
AssignAccount_keep_seed(rows) ==
    [i \in DOMAIN rows |->
        IF rows[i].Name = Null /\ rows[i].Account # Null
        THEN [rows[i] EXCEPT !.Class = rows[i].Account]
        ELSE rows[i]]

\* vadf.loc[vadf.Name.isnull(), "Class"] = vadf["Account"]
AssignAccount(rows) ==
    [i \in DOMAIN rows |->
        IF rows[i].Name = Null THEN [rows[i] EXCEPT !.Class = rows[i].Account]
        ELSE rows[i]]

\* no propagation: every Class stays as seeded
FFill_none(rows) == rows

\* vadf["Class"] = vadf["Class"].ffill(): a missing Class takes the last Class
\* above it that is not missing
RECURSIVE FFill(_)
FFill(rows) ==
    IF rows = <<>> THEN <<>>
    ELSE LET n == Len(rows)
             above == FFill(SubSeq(rows, 1, n - 1))
         IN  IF rows[n].Class = Null /\ n > 1
             THEN Append(above, [rows[n] EXCEPT !.Class = above[n - 1].Class])
             ELSE Append(above, rows[n])

\* vadf.dropna(subset=["Value"])
DropNaValue(rows) == SelectSeq(rows, LAMBDA r : r.Value # Null)

csv_post_process(rows) ==
    ResetIndex(DropNaValue(FFill(AssignAccount(RenameColumns(InsertClass(rows))))))

-----------------------------------------------------------------------------
(* post_process *)

IsStructural(r) == r.Symbol = "Subtotal:" \/ r.Symbol = "Total:"

\* the Class of subtotals and totals left as it is
NullStructural_skipped(rows) == rows

\* vadf.loc[vadf[(vadf.Symbol == "Subtotal:") | (vadf.Symbol == "Total:")].index,
\*          "Class"] = np.nan
NullStructural(rows) ==
    [i \in DOMAIN rows |->
        IF IsStructural(rows[i]) THEN [rows[i] EXCEPT !.Class = Null] ELSE rows[i]]

\* vadf["Name"] = vadf["Name"].fillna("None")
FillNameNone(rows) ==
    [i \in DOMAIN rows |->
        IF rows[i].Name = Null THEN [rows[i] EXCEPT !.Name = "None"] ELSE rows[i]]

\* vadf["Class"] = vadf.apply(
\*     lambda row: "Fixed" if fixed_regex.search(row.Name) else row.Class, axis=1)
FixedClass(rows) ==
    [i \in DOMAIN rows |->
        IF FixedRegexSearch(rows[i].Name) THEN [rows[i] EXCEPT !.Class = "Fixed"]
        ELSE rows[i]]

\* the block run whether fixed is set or not
FixedStep_unconditional(rows, fixed) == FixedClass(FillNameNone(rows))

\* the "if fixed:" block
FixedStep(rows, fixed) == IF fixed THEN FixedClass(FillNameNone(rows)) ELSE rows

\* the substitution followed through: a Class that the map gives and that is a
\* key again is mapped once more
ClassMapStep_chained(rows, cm) ==
    LET d == DictZip(cm, "Class", "ClassMap")
        once == [i \in DOMAIN rows |->
                    IF IsIn(rows[i].Class, cm, "Class")
                    THEN [rows[i] EXCEPT !.Class = MapCell(@, d)]
                    ELSE rows[i]]
    IN  [i \in DOMAIN once |->
            IF IsIn(once[i].Class, cm, "Class")
            THEN [once[i] EXCEPT !.Class = MapCell(@, d)]
            ELSE once[i]]

\* vadf.loc[vadf["Class"].isin(cmdf.Class), "Class"] =
\*     vadf["Class"].map(dict(zip(cmdf.Class, cmdf.ClassMap)))
ClassMapStep(rows, cm) ==
    [i \in DOMAIN rows |->
        IF IsIn(rows[i].Class, cm, "Class")
        THEN [rows[i] EXCEPT !.Class = MapCell(@, DictZip(cm, "Class", "ClassMap"))]
        ELSE rows[i]]

\* vadf.loc[vadf["Name"].isin(amdf.Name), "Class"] =
\*     vadf["Name"].map(dict(zip(amdf.Name, amdf.Class)))
AssetMapStep(rows, am) ==
    [i \in DOMAIN rows |->
        IF IsIn(rows[i].Name, am, "Name")
        THEN [rows[i] EXCEPT !.Class = MapCell(rows[i].Name, DictZip(am, "Name", "Class"))]
        ELSE rows[i]]

\* the Asset Map applied before the fixed-income and Class Map rules
post_process_asset_first(rows, cm, am, fixed) ==
    ClassMapStep(FixedStep(AssetMapStep(NullStructural(rows), am), fixed), cm)

post_process(rows, cm, am, fixed) ==
    AssetMapStep(ClassMapStep(FixedStep(NullStructural(rows), fixed), cm), am)

-----------------------------------------------------------------------------
(* write_results *)

\* the candidates taken to be the rows whose Class is "Other", not those whose
\* Class starts with it
IsCandidate_exact(r) == r.Class = "Other"

\* odf = vadf.dropna(subset=["Class"])[vadf.Class.str.startswith("Other").dropna()]
\*           [["Name", "Class"]].reset_index(drop=True)
IsCandidate(r) == r.Class # Null /\ StartsWith(r.Class, "Other")

CandidateRows(rows) ==
    LET sel == SelectSeq(rows, IsCandidate)
    IN  ResetIndex([i \in DOMAIN sel |->
            [idx |-> sel[i].idx, Name |-> sel[i].Name, Class |-> sel[i].Class]])

\* odf["%"] = 1.0
AddPercent(rows) == [i \in DOMAIN rows |-> ("%" :> "1.0") @@ rows[i]]

\* the drop without its test of the Name: header rows stay
IsDropped_by_symbol(r) == r.Symbol = "Subtotal:" \/ r.Symbol = "Total:"

\* vadf.drop(vadf[(vadf.Symbol == "Subtotal:") | (vadf.Symbol == "Total:")
\*                | (vadf.Name == "Name")].index, inplace=True)
IsDropped(r) == r.Symbol = "Subtotal:" \/ r.Symbol = "Total:" \/ r.Name = "Name"

DropStructural(rows) == SelectSeq(rows, LAMBDA r : ~IsDropped(r))

\* cmdf.Order.notnull().values.sum() > 0
AnyOrder(cm) == \E i \in DOMAIN cm : cm[i].Order # Null

\* < on two sort keys that are not missing: numbers for an Order column that
\* read_csv parsed (float64), strings otherwise (object)
KeyLess(dtype, a, b) ==
    IF dtype = "float64" THEN ParseNat(a) < ParseNat(b) ELSE StrLess(a, b)

\* the merge of two sorted runs of <<key, row>> pairs: on a tie the left run's
\* pair comes first
RECURSIVE Merge(_, _, _)
Merge(l, r, dtype) ==
    IF l = <<>> THEN r
    ELSE IF r = <<>> THEN l
    ELSE IF KeyLess(dtype, r[1][1], l[1][1])
         THEN <<r[1]>> \o Merge(l, Tail(r), dtype)
         ELSE <<l[1]>> \o Merge(Tail(l), r, dtype)

\* kind="mergesort"
RECURSIVE MergeSort(_, _)
MergeSort(s, dtype) ==
    IF Len(s) <= 1 THEN s
    ELSE LET m == Len(s) \div 2
         IN  Merge(MergeSort(SubSeq(s, 1, m), dtype),
                   MergeSort(SubSeq(s, m + 1, Len(s)), dtype), dtype)

\* a sort that is not stable: pairs with equal keys leave in reverse order
SortPairs_unstable(pairs, dtype) ==
    LET keyed == SelectSeq(pairs, LAMBDA p : p[1] # Null)
        nokey == SelectSeq(pairs, LAMBDA p : p[1] = Null)
        done == MergeSort([i \in DOMAIN keyed |-> keyed[Len(keyed) + 1 - i]], dtype) \o nokey
    IN  [i \in DOMAIN done |-> done[i][2]]

\* sort_values(kind="mergesort") on the keys (na_position="last"): the pairs with
\* a key sorted, then those with a missing key in their order
SortPairs(pairs, dtype) ==
    LET keyed == SelectSeq(pairs, LAMBDA p : p[1] # Null)
        nokey == SelectSeq(pairs, LAMBDA p : p[1] = Null)
        done == MergeSort(keyed, dtype) \o nokey
    IN  [i \in DOMAIN done |-> done[i][2]]

\* x.map(dict(zip(cmdf.ClassMap, cmdf.Order))) for one row.  Whether a missing
\* Class finds a missing ClassMap key depends on how the two missing values were
\* made (None or NaN): nanHit holds the index labels of the rows that find it.
OrderKey(r, cm, nanHit) ==
    IF r.Class = Null /\ r.idx \notin nanHit THEN Null
    ELSE MapCell(r.Class, DictZip(cm, "ClassMap", "Order"))

\* the sort of write_results
SortRows(rows, cmtable, nanHit) ==
    IF AnyOrder(cmtable.rows)
    THEN SortPairs([i \in DOMAIN rows |-> <<OrderKey(rows[i], cmtable.rows, nanHit), rows[i]>>],
                   cmtable.order_dtype)
    ELSE SortPairs([i \in DOMAIN rows |-> <<rows[i].Class, rows[i]>>], "object")

-----------------------------------------------------------------------------
(* The input files and the command line *)

\* a file that does not exist
Missing == [exists |-> FALSE, cols |-> {}, rows |-> <<>>]

\* a csv file: its header line and its rows
CsvFile(cols, rows) == [exists |-> TRUE, cols |-> cols, rows |-> rows]

\* one line of the portfolio export
RawRow(account, name, symbol, value, pct) ==
    [Symbol |-> symbol, Value |-> value]
    @@ ("Account Name" :> account) @@ ("Fund Name" :> name) @@ ("% of Portfolio" :> pct)

ClassMapEntry(class, classmap, order) ==
    [Class |-> class, ClassMap |-> classmap, Order |-> order]

AssetMapEntry(name, class) == [Name |-> name, Class |-> class] @@ ("%" :> "1.0")

\* the hardcoded Class Map of read_class_map
DefaultClassMap ==
    << ClassMapEntry("U.S. stocks & stock funds", "U.S. stocks", "3"),
       ClassMapEntry("International stocks & stock funds", "Intl stocks", "4"),
       ClassMapEntry("Other stocks", "Other stocks", "6"),
       ClassMapEntry("U.S. bonds & bond funds", "U.S. bonds", "1"),
       ClassMapEntry("International bonds & bond funds", "Intl bonds", "2"),
       ClassMapEntry("Other bonds", "Other bonds", "5"),
       ClassMapEntry("Short term reserves", "Cash", "0"),
       ClassMapEntry("Other asset types", "Other asset types", "7") >>

\* the sequences over S of length at most n
SeqsUpTo(S, n) == UNION {[1..k -> S] : k \in 0..n}

-----------------------------------------------------------------------------
(* main *)

Say(quiet, msg) == IF quiet THEN stdout ELSE Append(stdout, msg)

Raise(exception) ==
    /\ pc' = "raised"
    /\ status' = exception

\* the state at line 91 of main, for a command line and a file system
InitWith(Args, CsvFiles, HtmlFiles, ClassMapFiles, AssetMapFiles) ==
    /\ args \in Args
    /\ files \in [csv : CsvFiles, html : HtmlFiles,
                   class_map : ClassMapFiles, asset_map : AssetMapFiles]
    /\ pc = "start"
    /\ vadf = EmptyFrame
    /\ cmdf = EmptyFrame
    /\ amdf = EmptyFrame
    /\ stdout = IF args.quiet THEN <<>>
                ELSE <<"Arguments of the script", "Process Vanguard Allocations">>
    /\ written = <<>>
    /\ status = "running"

\* vadf = read_csv_portfolio(args.csv_path)
ReadCsvPortfolio ==
    /\ pc = "start"
    /\ args.mode = "csv"
    /\ stdout' = Say(args.quiet, "CSV mode")
    /\ \/ /\ ~files.csv.exists
          /\ Raise("FileNotFoundError")
          /\ UNCHANGED vadf
       \/ /\ files.csv.exists
          /\ ~(PortfolioColumns \subseteq files.csv.cols)
          /\ Raise("ValueError")
          /\ UNCHANGED vadf
       \/ /\ files.csv.exists
          /\ PortfolioColumns \subseteq files.csv.cols
          /\ vadf' = Table(PortfolioColumns, WithIndex(files.csv.rows))
          /\ pc' = "read_class_map"
          /\ UNCHANGED status
    /\ UNCHANGED <<args, files, cmdf, amdf, written>>

\* the html branch without its sys.exit(1)
HtmlMode_no_exit ==
    /\ pc = "start"
    /\ args.mode = "html"
    /\ stdout' = IF args.quiet THEN Append(stdout, "HTML mode currently disabled")
                 ELSE stdout \o <<"HTML mode currently disabled", "HTML mode">>
    /\ \/ /\ ~files.html.exists
          /\ Raise("FileNotFoundError")
       \/ /\ files.html.exists
          /\ Cardinality(files.html.cols) # 3
          /\ Raise("ValueError")
       \/ /\ files.html.exists
          /\ Cardinality(files.html.cols) = 3
          /\ pc' = "read_class_map"
          /\ UNCHANGED status
    /\ UNCHANGED <<args, files, vadf, cmdf, amdf, written>>

\* the html branch: html_dfs = read_html_portfolio(args.html_path); sys.exit(1)
HtmlMode ==
    /\ pc = "start"
    /\ args.mode = "html"
    /\ stdout' = IF args.quiet THEN Append(stdout, "HTML mode currently disabled")
                 ELSE stdout \o <<"HTML mode currently disabled", "HTML mode">>
    /\ \/ /\ ~files.html.exists
          /\ Raise("FileNotFoundError")
       \/ /\ files.html.exists
          /\ Cardinality(files.html.cols) # 3
          /\ Raise("ValueError")
       \/ /\ files.html.exists
          /\ Cardinality(files.html.cols) = 3
          /\ pc' = "exited"
          /\ status' = "SystemExit(1)"
    /\ UNCHANGED <<args, files, vadf, cmdf, amdf, written>>

\* cmdf = read_class_map(args.class_map, args.quiet)
ReadClassMap ==
    /\ pc = "read_class_map"
    /\ \/ /\ ~files.class_map.exists
          /\ stdout' = Append(stdout, "Class Map not found")
          /\ cmdf' = Table(ClassMapColumns, WithIndex(DefaultClassMap))
                       @@ [order_dtype |-> "object"]
          /\ pc' = "read_asset_map"
          /\ UNCHANGED status
       \/ /\ files.class_map.exists
          /\ ~(ClassMapColumns \subseteq files.class_map.cols)
          /\ Raise("KeyError")
          /\ UNCHANGED <<cmdf, stdout>>
       \/ /\ files.class_map.exists
          /\ ClassMapColumns \subseteq files.class_map.cols
          /\ stdout' = Say(args.quiet, "Read Class map")
          /\ cmdf' = Table(ClassMapColumns, WithIndex(files.class_map.rows))
                       @@ [order_dtype |-> "float64"]
          /\ pc' = "read_asset_map"
          /\ UNCHANGED status
    /\ UNCHANGED <<args, files, vadf, amdf, written>>

\* the warning printed only when not quiet
read_asset_map_quiet_warning(file, quiet) ==
    \/ /\ ~file.exists
       /\ stdout' = Say(quiet, "Asset Map not found")
       /\ amdf' = Table(AssetMapColumns, <<>>)
       /\ pc' = "csv_post_process"
       /\ UNCHANGED status
    \/ /\ file.exists
       /\ ~(AssetMapColumns \subseteq file.cols)
       /\ Raise("KeyError")
       /\ UNCHANGED <<amdf, stdout>>
    \/ /\ file.exists
       /\ AssetMapColumns \subseteq file.cols
       /\ stdout' = Say(quiet, "Read Asset map")
       /\ amdf' = Table(AssetMapColumns, WithIndex(file.rows))
       /\ pc' = "csv_post_process"
       /\ UNCHANGED status

\* every exception caught, not FileNotFoundError alone
read_asset_map_catch_all(file, quiet) ==
    \/ /\ ~file.exists \/ ~(AssetMapColumns \subseteq file.cols)
       /\ stdout' = Append(stdout, "Asset Map not found")
       /\ amdf' = Table(AssetMapColumns, <<>>)
       /\ pc' = "csv_post_process"
       /\ UNCHANGED status
    \/ /\ file.exists
       /\ AssetMapColumns \subseteq file.cols
       /\ stdout' = Say(quiet, "Read Asset map")
       /\ amdf' = Table(AssetMapColumns, WithIndex(file.rows))
       /\ pc' = "csv_post_process"
       /\ UNCHANGED status

\* read_asset_map(asset_map_path, quiet)
read_asset_map(file, quiet) ==
    \/ /\ ~file.exists
       /\ stdout' = Append(stdout, "Asset Map not found")
       /\ amdf' = Table(AssetMapColumns, <<>>)
       /\ pc' = "csv_post_process"
       /\ UNCHANGED status
    \/ /\ file.exists
       /\ ~(AssetMapColumns \subseteq file.cols)
       /\ Raise("KeyError")
       /\ UNCHANGED <<amdf, stdout>>
    \/ /\ file.exists
       /\ AssetMapColumns \subseteq file.cols
       /\ stdout' = Say(quiet, "Read Asset map")
       /\ amdf' = Table(AssetMapColumns, WithIndex(file.rows))
       /\ pc' = "csv_post_process"
       /\ UNCHANGED status

\* amdf = read_asset_map(args.asset_map, args.quiet)
ReadAssetMap ==
    /\ pc = "read_asset_map"
    /\ read_asset_map(files.asset_map, args.quiet)
    /\ UNCHANGED <<args, files, vadf, cmdf, written>>

\* vadf = csv_post_process(vadf)
CsvPostProcess ==
    /\ pc = "csv_post_process"
    /\ args.mode = "csv"
    /\ vadf' = Table({"Class"} \cup {RenameLabel(c) : c \in vadf.cols},
                     csv_post_process(vadf.rows))
    /\ pc' = "post_process"
    /\ UNCHANGED <<args, files, cmdf, amdf, stdout, written, status>>

\* post_process(vadf, cmdf, amdf, args.fixed, args.quiet).  On a table without
\* rows DataFrame.apply returns a frame, not a column, and the assignment of it
\* to vadf["Class"] is refused or accepted depending on the pandas at hand.
PostProcess ==
    /\ pc = "post_process"
    /\ stdout' = IF args.fixed THEN Say(args.quiet, "Fixed mode") ELSE stdout
    /\ \/ /\ args.fixed
          /\ vadf.rows = <<>>
          /\ Raise("ValueError")
          /\ UNCHANGED vadf
       \/ /\ vadf' = [vadf EXCEPT !.rows = post_process(@, cmdf.rows, amdf.rows, args.fixed)]
          /\ pc' = "write_candidates"
          /\ UNCHANGED status
    /\ UNCHANGED <<args, files, cmdf, amdf, written>>

\* every row of a table that has rows lacks a Class
AllClassMissing(rows) == rows # <<>> /\ \A i \in DOMAIN rows : rows[i].Class = Null

\* write_results, lines 473-483: the candidates.  On a table with rows and no
\* Class at all the selection depends on the pandas at hand and on the type the
\* empty Class column was given: vadf.Class.str is refused (AttributeError) for
\* a column of numbers; str.startswith(...).dropna() is an empty column of
\* objects, which selects columns, not rows, so that [["Name", "Class"]] finds
\* no column (KeyError); or the mask is boolean and selects no row.
WriteCandidates ==
    /\ pc = "write_candidates"
    /\ \/ /\ AllClassMissing(vadf.rows)
          /\ \E exception \in {"KeyError", "AttributeError"} : Raise(exception)
          /\ UNCHANGED <<stdout, written>>
       \/ /\ LET odf == CandidateRows(vadf.rows)
             IN  IF Len(odf) > 0
                 THEN /\ stdout' = Say(args.quiet, "Outputting 'Other' Assets")
                      /\ written' = Append(written,
                             [name |-> "Asset-Map-Candidates.csv",
                              rows |-> NoIndex(AddPercent(odf))])
                 ELSE UNCHANGED <<stdout, written>>
          /\ pc' = "write_report"
          /\ UNCHANGED status
    /\ UNCHANGED <<args, files, vadf, cmdf, amdf>>

\* write_results, lines 485-491: the unsorted report
WriteReport ==
    /\ pc = "write_report"
    /\ stdout' = Say(args.quiet, "Outputting allocations as csv report")
    /\ written' = Append(written,
           [name |-> "out/Van-Alloc-Rep.csv", rows |-> NoIndex(vadf.rows)])
    /\ pc' = "write_sorted"
    /\ UNCHANGED <<args, files, vadf, cmdf, amdf, status>>

\* write_results, lines 493-517: the sorted report; main returns
WriteSorted ==
    /\ pc = "write_sorted"
    /\ LET kept == DropStructural(vadf.rows)
       IN  \E nanHit \in SUBSET {r.idx : r \in {q \in Range(kept) : q.Class = Null}} :
              /\ nanHit # {} => IsIn(Null, cmdf.rows, "ClassMap")
              /\ vadf' = [vadf EXCEPT !.rows = SortRows(kept, cmdf, nanHit)]
    /\ stdout' = Say(args.quiet, "Outputting sorted allocations without totals as csv")
    /\ written' = Append(written, [name |-> "out/Van-Alloc.csv", rows |-> NoIndex(vadf'.rows)])
    /\ pc' = "done"
    /\ status' = "returned"
    /\ UNCHANGED <<args, files, cmdf, amdf>>

Next ==
    \/ ReadCsvPortfolio
    \/ HtmlMode
    \/ ReadClassMap
    \/ ReadAssetMap
    \/ CsvPostProcess
    \/ PostProcess
    \/ WriteCandidates
    \/ WriteReport
    \/ WriteSorted

-----------------------------------------------------------------------------
(* The runs that are checked *)

\* the longest portfolio export, Class Map file and Asset Map file of Spec
MaxRows == 2
MaxMapRows == 1

\* the lines of a portfolio export
AccountMarker(account) == RawRow(account, Null, Null, Null, Null)
HeaderLine == RawRow("Account", "Name", "Symbol", "Value", "%")
Holding(name, symbol, value) == RawRow("IRA", name, symbol, value, "10%")
\* a holding whose Fund Name is empty: its Account Name becomes its Class
Unnamed(account, symbol, value) == RawRow(account, Null, symbol, value, "5%")
SubtotalLine == RawRow(Null, Null, "Subtotal:", "300", "30%")
TotalLine(name) == RawRow("IRA", name, "Total:", "300", "30%")

PortfolioLines ==
    { AccountMarker("Other bonds"),
      Holding("Fund A", "FA", "100"),
      Holding("UST CPN 2030", "UST", "200"),
      Unnamed("Other bonds", "VB", "50"),
      SubtotalLine,
      TotalLine("UST CPN 2030") }

ClassMapLines ==
    { ClassMapEntry("Other bonds", "Bonds", "2"),
      ClassMapEntry("Bonds", "Other assets", "10"),
      ClassMapEntry("Fixed", "Bonds", "1"),
      ClassMapEntry("Other bonds", Null, Null) }

AssetMapLines ==
    { AssetMapEntry("UST CPN 2030", "Munis"),
      AssetMapEntry("Fund A", "Other stocks"),
      AssetMapEntry("Fund A", Null) }

\* a file: missing, without one of its required columns, or with the columns
\* and at most n of the lines
FilesOf(columns, dropped, lines, n) ==
    {Missing, CsvFile(columns \ {dropped}, <<>>)}
    \cup {CsvFile(columns, rows) : rows \in SeqsUpTo(lines, n)}

\* the saved page: missing, or its asset table with 3 columns or with 2
HtmlFiles ==
    {Missing, CsvFile({"Name", "Value", "%"}, <<>>), CsvFile({"Name", "Value"}, <<>>)}

\* html mode on every state of the saved page
InitHtml ==
    InitWith([mode : {"html"}, quiet : BOOLEAN, fixed : BOOLEAN],
             {Missing}, HtmlFiles, {Missing}, {Missing})

\* csv mode: every command line on every state of the three files with at most
\* one line each, and the quiet runs on the longer files
Init ==
    \/ InitHtml
    \/ InitWith([mode : {"csv"}, quiet : BOOLEAN, fixed : BOOLEAN],
                FilesOf(PortfolioColumns, "Symbol", PortfolioLines, 1),
                {Missing},
                FilesOf(ClassMapColumns, "Order", ClassMapLines, 1),
                FilesOf(AssetMapColumns, "Name", AssetMapLines, 1))
    \/ InitWith([mode : {"csv"}, quiet : {TRUE}, fixed : BOOLEAN],
                FilesOf(PortfolioColumns, "Symbol", PortfolioLines, MaxRows),
                {Missing},
                FilesOf(ClassMapColumns, "Order", ClassMapLines, MaxMapRows),
                FilesOf(AssetMapColumns, "Name", AssetMapLines, MaxMapRows))

Spec == Init /\ [][Next]_vars

\* the longest portfolio export of SpecNorm
MaxNormRows == 4

\* a header line whose first two cells are empty, and a holding without a Value
BareHeaderLine == RawRow(Null, Null, "Symbol", "Value", "%")
NoValueLine == RawRow("IRA", "Fund A", "FA", Null, Null)

NormLines ==
    { AccountMarker("Other bonds"),
      AccountMarker("Bonds"),
      AccountMarker(Null),
      HeaderLine,
      BareHeaderLine,
      Holding("Fund A", "FA", "100"),
      NoValueLine,
      SubtotalLine }

\* the runs of main up to the return of csv_post_process, on the longer exports
InitNorm ==
    InitWith([mode : {"csv"}, quiet : BOOLEAN, fixed : {FALSE}],
             FilesOf(PortfolioColumns, "Value", NormLines, MaxNormRows),
             {Missing}, {Missing}, {Missing})

NextNorm == ReadCsvPortfolio \/ ReadClassMap \/ ReadAssetMap \/ CsvPostProcess

SpecNorm == InitNorm /\ [][NextNorm]_vars

\* the longest portfolio export and the longest Class Map file of SpecWrite
MaxWriteRows == 3
MaxWriteMapRows == 2

WriteLines ==
    { Unnamed("Other assets", "VB", "50"),
      Unnamed("Bonds", "VC", "60"),
      Holding("Fund A", "FA", "100"),
      HeaderLine,
      SubtotalLine }

\* Orders that sort differently as numbers and as strings, an entry without an
\* Order and one without a ClassMap
WriteClassMapLines ==
    { ClassMapEntry("Bonds", "Bonds", "10"),
      ClassMapEntry("Other assets", "Other assets", "2"),
      ClassMapEntry("Value", "Cash", Null),
      ClassMapEntry("Other assets", Null, "5") }

WriteAssetMapFiles ==
    {Missing, CsvFile(AssetMapColumns, <<AssetMapEntry("Fund A", "Other stocks")>>)}

\* the runs of main that reach write_results on the longer tables
InitWrite ==
    \/ InitHtml
    \/ InitWith([mode : {"csv"}, quiet : {TRUE}, fixed : {FALSE}],
                FilesOf(PortfolioColumns, "Symbol", WriteLines, MaxWriteRows),
                {Missing},
                FilesOf(ClassMapColumns, "Order", WriteClassMapLines, MaxWriteMapRows),
                WriteAssetMapFiles)

SpecWrite == InitWrite /\ [][Next]_vars

\* the longest portfolio export and the longest Class Map file of SpecMap
MaxChainRows == 2
MaxChainMapRows == 2

ChainLines ==
    { Unnamed("Other bonds", "VB", "50"),
      Unnamed("Bonds", "VC", "60"),
      Holding("UST CPN 2030", "UST", "200"),
      SubtotalLine }

\* Class Map entries whose ClassMap is a key again, or their own key
ChainClassMapLines ==
    { ClassMapEntry("Other bonds", "Bonds", "2"),
      ClassMapEntry("Bonds", "Other assets", "10"),
      ClassMapEntry("Bonds", "Bonds", "1"),
      ClassMapEntry("Other assets", "Other bonds", "3"),
      ClassMapEntry("Fixed", "Bonds", "1") }

ChainAssetMapFiles ==
    {Missing, CsvFile(AssetMapColumns, <<AssetMapEntry("UST CPN 2030", "Munis")>>)}

\* the runs of main on Class Maps of several entries
InitMap ==
    \/ InitHtml
    \/ InitWith([mode : {"csv"}, quiet : {TRUE}, fixed : BOOLEAN],
                FilesOf(PortfolioColumns, "Symbol", ChainLines, MaxChainRows),
                {Missing},
                FilesOf(ClassMapColumns, "Order", ChainClassMapLines, MaxChainMapRows),
                ChainAssetMapFiles)

SpecMap == InitMap /\ [][Next]_vars

-----------------------------------------------------------------------------
(* Properties *)

\* post_process has returned and write_results has not yet dropped a row
Classified == pc \in {"write_candidates", "write_report", "write_sorted"}

\* the step of main that is the call of post_process
PostProcessReturns == pc = "post_process" /\ pc' = "write_candidates"

\* the last row of a table whose column col holds key
LastWith(rows, col, key) ==
    rows[CHOOSE k \in DOMAIN rows :
            /\ rows[k][col] = key
            /\ \A j \in DOMAIN rows : j > k => rows[j][col] # key]

\* the Class a row has when the Class Map is applied: "Fixed" by the fixed-income
\* rule, missing for a subtotal or total, else the Class it came with
ClassBeforeMaps(before, after) ==
    IF args.fixed /\ FixedRegexSearch(after.Name) THEN "Fixed"
    ELSE IF IsStructural(before) THEN Null
    ELSE before.Class

\* C1: when post_process returns, a row whose Name is the Name of an Asset Map
\* entry has the Class of that entry (the last one with that Name), whatever the
\* fixed-income rule and the Class Map say; a row without an Asset Map entry
\* whose Class (possibly "Fixed") is a Class Map key has the ClassMap of that
\* key's (last) entry.
C1_Precedence ==
    [][PostProcessReturns =>
        \A i \in DOMAIN vadf'.rows :
            LET before == vadf.rows[i]
                after == vadf'.rows[i]
                class == ClassBeforeMaps(before, after)
            IN  IF IsIn(after.Name, amdf.rows, "Name")
                THEN after.Class = LastWith(amdf.rows, "Name", after.Name).Class
                ELSE IsIn(class, cmdf.rows, "Class")
                     => after.Class = LastWith(cmdf.rows, "Class", class).ClassMap]_vars

\* C1 witness: fixed mode, a row that matches the regex and has an Asset Map
\* entry while "Fixed" is a Class Map key, classified by the Asset Map
C1_Witness ==
    /\ pc = "write_candidates"
    /\ args.fixed
    /\ IsIn("Fixed", cmdf.rows, "Class")
    /\ \E i \in DOMAIN vadf.rows :
          /\ FixedRegexSearch(vadf.rows[i].Name)
          /\ IsIn(vadf.rows[i].Name, amdf.rows, "Name")
          /\ vadf.rows[i].Class = "Munis"

\* the Class a line of the export seeds: its Account Name if it has no Fund
\* Name, else "Value" if it is a header line, else none
SeedOf(line) ==
    IF line["Fund Name"] = Null THEN line["Account Name"]
    ELSE IF line.Value = "Value" THEN "Value"
    ELSE Null

\* the position in the export of the i-th line that has a Value
RECURSIVE LineOf(_, _)
LineOf(lines, i) ==
    LET first == CHOOSE k \in DOMAIN lines :
                    /\ lines[k].Value # Null
                    /\ \A j \in 1..(k - 1) : lines[j].Value = Null
    IN  IF i = 1 THEN first
        ELSE first + LineOf(SubSeq(lines, first + 1, Len(lines)), i - 1)

\* the row of the classified table at position i lies at or below a line of the
\* export that seeds a Class
Seeded(i) ==
    \E k \in 1..LineOf(files.csv.rows, i) : SeedOf(files.csv.rows[k]) # Null

ClassAfterClassMap(before, after) ==
    LET class == ClassBeforeMaps(before, after)
    IN  IF IsIn(class, cmdf.rows, "Class")
        THEN LastWith(cmdf.rows, "Class", class).ClassMap
        ELSE class

ReachesAssetMap ==
    /\ args.mode = "csv"
    /\ files.csv.exists /\ PortfolioColumns \subseteq files.csv.cols
    /\ files.class_map.exists => ClassMapColumns \subseteq files.class_map.cols

\* C9: when the asset-map file exists and lacks one of Name, Class, %,
\* read_asset_map raises (KeyError) and amdf is never bound to the empty table;
\* the fallback with its warning is taken only when the file does not exist.
C9_InvalidColumnsRaise ==
    /\ ( /\ files.asset_map.exists
         /\ ~({"Name", "Class", "%"} \subseteq files.asset_map.cols) )
       => /\ pc \in {"start", "read_class_map", "read_asset_map", "raised"}
          /\ amdf = EmptyFrame
          /\ (pc = "raised" /\ ReachesAssetMap) => status = "KeyError"
    /\ "Asset Map not found" \in Range(stdout) => ~files.asset_map.exists

\* C9 witness: the run ended in read_asset_map's KeyError
C9_Witness ==
    /\ ReachesAssetMap
    /\ files.asset_map.exists
    /\ pc = "raised"
    /\ status = "KeyError"

\* the portfolio was loaded in csv mode
PortfolioLoaded ==
    /\ args.mode = "csv"
    /\ files.csv.exists
    /\ PortfolioColumns \subseteq files.csv.cols

\* C10: an output file is written only after the portfolio was loaded in csv
\* mode and both mapping loaders returned; a run in html mode and a run whose
\* portfolio file is missing or lacks a column end in exit status 1 or in an
\* exception, with no output file written.
C10_OutputsOnlyAfterLoading ==
    /\ written # <<>> =>
          /\ PortfolioLoaded
          /\ cmdf.cols = ClassMapColumns
          /\ amdf.cols = AssetMapColumns
          /\ pc \in {"write_report", "write_sorted", "done"}
    /\ ~PortfolioLoaded =>
          /\ written = <<>>
          /\ pc \in {"start", "exited", "raised"}
          /\ pc = "exited" => status = "SystemExit(1)"
          /\ pc = "raised" => status \in {"FileNotFoundError", "ValueError"}
          /\ pc = "start" => status = "running"

\* C10 witness: a run that wrote its three output files
C10_Witness ==
    /\ pc = "done"
    /\ Len(written) = 3
    /\ written[1].name = "Asset-Map-Candidates.csv"

\* the export is one account block: an account marker, a header line, a holding
\* and a subtotal
AccountBlock ==
    /\ Len(files.csv.rows) = 4
    /\ LET marker == files.csv.rows[1]
           header == files.csv.rows[2]
           data == files.csv.rows[3]
           subtotal == files.csv.rows[4]
       IN  /\ marker["Fund Name"] = Null /\ marker.Value = Null
           /\ header.Value = "Value"
           /\ data["Fund Name"] # Null /\ data.Symbol # Null
           /\ data.Value # Null /\ data.Value # "Value"
           /\ subtotal.Symbol = "Subtotal:" /\ subtotal.Value # Null

\* C4 as stated: after csv_post_process the holding of an account block has the
\* Account of the block's marker as its Class.
C4_HoldingGetsAccount ==
    (pc = "post_process" /\ AccountBlock) =>
        vadf.rows[2].Class = files.csv.rows[1]["Account Name"]

\* C4 amended: after csv_post_process the holding of an account block
\* (a line with a Fund Name, a Symbol and a Value that is not "Value") has the
\* Class "Value" that the header line between the marker and the holding seeds,
\* when that header line has a Name; when the header line has no Name the
\* holding has the header line's Account if it has one, else the marker's.
C4_HoldingGetsHeaderSeed ==
    (pc = "post_process" /\ AccountBlock) =>
        vadf.rows[2].Class =
            IF files.csv.rows[2]["Fund Name"] # Null THEN "Value"
            ELSE IF files.csv.rows[2]["Account Name"] # Null
                 THEN files.csv.rows[2]["Account Name"]
                 ELSE files.csv.rows[1]["Account Name"]

\* C4 witness: the holding of an account block whose header line has a Name and
\* whose marker has an Account is classified "Value"
C4_Witness ==
    /\ pc = "post_process"
    /\ AccountBlock
    /\ files.csv.rows[1]["Account Name"] = "Other bonds"
    /\ files.csv.rows[2]["Fund Name"] # Null
    /\ vadf.rows[2].Name = "Fund A"
    /\ vadf.rows[2].Class = "Value"

\* a file of that name was written, and its rows
Wrote(name) == \E i \in DOMAIN written : written[i].name = name
RowsOf(name) == written[CHOOSE i \in DOMAIN written : written[i].name = name].rows

\* the row is a subtotal, a total or a header row
IsTotalOrHeader(r) == r.Symbol \in {"Subtotal:", "Total:"} \/ r.Name = "Name"

\* C5: the unsorted report holds every row of the classified table, header,
\* subtotal and total rows included; the sorted report holds each row of the
\* unsorted report that is no subtotal, total or header row exactly once with
\* its fields unchanged, has as many rows as the unsorted report less those
\* rows, and holds no subtotal, total or header row.
C5_Reports ==
    /\ pc = "write_sorted" => RowsOf("out/Van-Alloc-Rep.csv") = NoIndex(vadf.rows)
    /\ pc = "done" =>
          LET unsorted == RowsOf("out/Van-Alloc-Rep.csv")
              sorted == RowsOf("out/Van-Alloc.csv")
              kept == {i \in DOMAIN unsorted : ~IsTotalOrHeader(unsorted[i])}
          IN  /\ Len(sorted) = Len(unsorted) - Cardinality(DOMAIN unsorted \ kept)
              /\ \E f \in [DOMAIN sorted -> kept] :
                    /\ \A j, k \in DOMAIN sorted : j # k => f[j] # f[k]
                    /\ \A k \in DOMAIN sorted : sorted[k] = unsorted[f[k]]
              /\ \A k \in DOMAIN sorted : ~IsTotalOrHeader(sorted[k])

\* C5 witness: both reports are written, the unsorted one with a header row, a
\* subtotal and a holding, the sorted one with the holding alone
C5_Witness ==
    /\ pc = "done"
    /\ LET unsorted == RowsOf("out/Van-Alloc-Rep.csv")
       IN  /\ Len(unsorted) = 3
           /\ \E i \in DOMAIN unsorted : unsorted[i].Name = "Name"
           /\ \E i \in DOMAIN unsorted : unsorted[i].Symbol = "Subtotal:"
    /\ Len(RowsOf("out/Van-Alloc.csv")) = 1

\* the sort key of a Class that is not missing: the Order of the last Class Map
\* entry whose ClassMap is that Class, missing when there is none
OrderOf(class) ==
    IF IsIn(class, cmdf.rows, "ClassMap")
    THEN LastWith(cmdf.rows, "ClassMap", class).Order
    ELSE Null

\* the two rows of the sorted table are in the order of the classified table
InTableOrder(r, q) == r.idx < q.idx

\* C6: in the sorted report, when a Class Map entry carries an Order, the rows
\* are in non-decreasing order of the Order the Class Map gives for their Class
\* (the Order of the entry whose ClassMap is that Class; rows without one come
\* last); otherwise they are in non-decreasing lexical order of Class (rows
\* without a Class last).  Two rows with equal sort keys keep the order they
\* had in the classified table.
C6_Sorted ==
    pc = "done" =>
        \A i, j \in DOMAIN vadf.rows :
            LET r == vadf.rows[i]
                q == vadf.rows[j]
            IN  (i < j) =>
                    IF AnyOrder(cmdf.rows)
                    THEN (r.Class # Null /\ q.Class # Null) =>
                            LET kr == OrderOf(r.Class)
                                kq == OrderOf(q.Class)
                            IN  /\ kr = Null => kq = Null /\ InTableOrder(r, q)
                                /\ (kr # Null /\ kq # Null) =>
                                      /\ ~KeyLess(cmdf.order_dtype, kq, kr)
                                      /\ ~KeyLess(cmdf.order_dtype, kr, kq) => InTableOrder(r, q)
                    ELSE /\ r.Class = Null => q.Class = Null /\ InTableOrder(r, q)
                         /\ (r.Class # Null /\ q.Class # Null) =>
                               /\ ~StrLess(q.Class, r.Class)
                               /\ r.Class = q.Class => InTableOrder(r, q)

\* C6 witness: a Class Map read from a file gives Order 10 to the first row and
\* Order 2 to the two rows after it; the sort moves the two in front, in their
\* order
C6_Witness ==
    /\ pc = "done"
    /\ cmdf.order_dtype = "float64"
    /\ Len(vadf.rows) = 3
    /\ \A i \in 1..3 : vadf.rows[i].Class # Null
    /\ OrderOf(vadf.rows[1].Class) = "2" /\ vadf.rows[1].idx = 1
    /\ OrderOf(vadf.rows[2].Class) = "2" /\ vadf.rows[2].idx = 2
    /\ OrderOf(vadf.rows[3].Class) = "10" /\ vadf.rows[3].idx = 0

\* C6 witness of the other case: no Class Map entry carries an Order and the
\* sort by Class moves a row
C6_WitnessLexical ==
    /\ pc = "done"
    /\ ~AnyOrder(cmdf.rows)
    /\ cmdf.rows # <<>>
    /\ Len(vadf.rows) >= 2
    /\ vadf.rows[1].Class = "Bonds" /\ vadf.rows[1].idx = 1
    /\ vadf.rows[2].Class = "Other assets" /\ vadf.rows[2].idx = 0

\* the Class is there and starts with "Other"
StartsWithOther(class) ==
    class # Null /\ Len(class) >= 5 /\ SubSeq(class, 1, 5) = "Other"

\* C7: the candidates file holds, in table order, the Name and Class of
\* exactly the rows of the classified table whose Class is there and starts
\* with "Other", each with % 1.0; it is written if and only if there is such a
\* row.
C7_Candidates ==
    /\ pc = "raised" => written = <<>>
    /\ pc \in {"write_report", "write_sorted"} =>
          LET cand == {i \in DOMAIN vadf.rows : StartsWithOther(vadf.rows[i].Class)}
          IN  /\ Wrote("Asset-Map-Candidates.csv") <=> cand # {}
              /\ Wrote("Asset-Map-Candidates.csv") =>
                    LET out == RowsOf("Asset-Map-Candidates.csv")
                    IN  /\ Len(out) = Cardinality(cand)
                        /\ \E f \in [DOMAIN out -> cand] :
                              /\ \A j, k \in DOMAIN out : j < k => f[j] < f[k]
                              /\ \A k \in DOMAIN out :
                                    out[k] = [Name |-> vadf.rows[f[k]].Name,
                                              Class |-> vadf.rows[f[k]].Class]
                                             @@ ("%" :> "1.0")

\* C7 witness: of three classified rows the first and the third are candidates
\* and the file holds the two
C7_Witness ==
    /\ pc = "write_report"
    /\ Len(vadf.rows) = 3
    /\ StartsWithOther(vadf.rows[1].Class)
    /\ ~StartsWithOther(vadf.rows[2].Class)
    /\ StartsWithOther(vadf.rows[3].Class)
    /\ Wrote("Asset-Map-Candidates.csv")
    /\ Len(RowsOf("Asset-Map-Candidates.csv")) = 2

\* C7 witness of the other case: no row is a candidate and no file is written
C7_WitnessNone ==
    /\ pc = "write_report"
    /\ vadf.rows # <<>>
    /\ written = <<>>

\* the ClassMap that the Class Map gives for a key: that of the key's last entry
ClassMapOf(class) == LastWith(cmdf.rows, "Class", class).ClassMap

\* no ClassMap that differs from its own key is a Class key
NoChain(cm) ==
    \A k \in DOMAIN cm :
        cm[k].ClassMap # cm[k].Class => ~IsIn(cm[k].ClassMap, cm, "Class")

\* C11: the Class Map step substitutes once: when post_process returns, a row
\* that reached the step with Class A, with entries A -> B and B -> C in the
\* Class Map (and no Asset Map entry for its Name), has Class B; and when no
\* ClassMap that differs from its own key is a Class key, a second application
\* of the step would change no row: no row's Class is a key whose ClassMap is
\* another Class (checked without an Asset Map, so that the table is the one
\* the step left).
C11_SingleSubstitution ==
    [][PostProcessReturns =>
        /\ Len(vadf'.rows) = Len(vadf.rows)
        /\ \A i \in DOMAIN vadf.rows :
              LET a == ClassBeforeMaps(vadf.rows[i], vadf'.rows[i])
              IN  ( /\ IsIn(a, cmdf.rows, "Class")
                    /\ IsIn(ClassMapOf(a), cmdf.rows, "Class")
                    /\ ~IsIn(vadf'.rows[i].Name, amdf.rows, "Name") )
                  => vadf'.rows[i].Class = ClassMapOf(a)
        /\ (amdf.rows = <<>> /\ NoChain(cmdf.rows)) =>
              \A i \in DOMAIN vadf'.rows :
                  LET b == vadf'.rows[i].Class
                  IN  IsIn(b, cmdf.rows, "Class") => ClassMapOf(b) = b
      ]_vars

\* C11 witness: with the entries Other bonds -> Bonds and Bonds -> Other assets
\* a row that came with Class Other bonds ends with Class Bonds
C11_Witness ==
    /\ pc = "write_candidates"
    /\ ~args.fixed
    /\ amdf.rows = <<>>
    /\ Len(cmdf.rows) = 2
    /\ cmdf.rows[1].Class = "Other bonds" /\ cmdf.rows[1].ClassMap = "Bonds"
    /\ cmdf.rows[2].Class = "Bonds" /\ cmdf.rows[2].ClassMap = "Other assets"
    /\ Len(vadf.rows) = 1
    /\ vadf.rows[1].Account = "Other bonds" /\ vadf.rows[1].Name = Null
    /\ vadf.rows[1].Class = "Bonds"

\* C11 witness of the second application: a Class Map without a chain has
\* renamed a row, and the new Class is no key
C11_WitnessIdempotent ==
    /\ pc = "write_candidates"
    /\ ~args.fixed
    /\ amdf.rows = <<>>
    /\ NoChain(cmdf.rows)
    /\ Len(cmdf.rows) = 2
    /\ cmdf.rows[1].Class = "Other bonds" /\ cmdf.rows[1].ClassMap = "Bonds"
    /\ cmdf.rows[2].Class = "Fixed" /\ cmdf.rows[2].ClassMap = "Bonds"
    /\ \E i \in DOMAIN vadf.rows :
          vadf.rows[i].Account = "Other bonds" /\ vadf.rows[i].Class = "Bonds"

\* C12: csv_post_process returns exactly the lines of the export that have a
\* Value, in their order (Fund Name and Account Name renamed, reindexed from 0),
\* each with the Class that is the seed of the nearest line at or above it in
\* the export, dropped lines included, whose seed is there; the seed of a line
\* is its Account Name if it has no Fund Name, else "Value" if its Value is
\* "Value", else none; the Class is missing if no line at or above has a seed.
C12_Normalized ==
    pc = "post_process" =>
        LET lines == files.csv.rows
            kept == {k \in DOMAIN lines : lines[k].Value # Null}
        IN  /\ vadf.cols = {"Class", "Name", "Account", "Symbol", "Value", "% of Portfolio"}
            /\ Len(vadf.rows) = Cardinality(kept)
            /\ \A i \in DOMAIN vadf.rows :
                  LET k == CHOOSE n \in kept : Cardinality({j \in kept : j <= n}) = i
                      above == {j \in 1..k : SeedOf(lines[j]) # Null}
                      row == vadf.rows[i]
                  IN  /\ row.idx = i - 1
                      /\ row.Name = lines[k]["Fund Name"]
                      /\ row.Account = lines[k]["Account Name"]
                      /\ row.Symbol = lines[k].Symbol
                      /\ row.Value = lines[k].Value
                      /\ row["% of Portfolio"] = lines[k]["% of Portfolio"]
                      /\ row.Class =
                            IF above = {} THEN Null
                            ELSE SeedOf(lines[CHOOSE m \in above : \A j \in above : j <= m])

\* C12 witness: three account markers in a row, the last without an Account
\* Name, then a holding: the markers are dropped and the holding has the
\* Account Name of the second marker as its Class
C12_Witness ==
    /\ pc = "post_process"
    /\ Len(files.csv.rows) = 4
    /\ \A k \in 1..3 : files.csv.rows[k]["Fund Name"] = Null /\ files.csv.rows[k].Value = Null
    /\ files.csv.rows[1]["Account Name"] = "Other bonds"
    /\ files.csv.rows[2]["Account Name"] = "Bonds"
    /\ files.csv.rows[3]["Account Name"] = Null
    /\ Len(vadf.rows) = 1
    /\ vadf.rows[1].Name = "Fund A"
    /\ vadf.rows[1].Class = "Bonds"

\* C12 witness of a header line without a Fund Name below a marker: its seed is
\* its empty Account Name, and the row it gives has the marker's Class
C12_WitnessBareHeader ==
    /\ pc = "post_process"
    /\ Len(files.csv.rows) = 2
    /\ files.csv.rows[1]["Account Name"] = "Bonds" /\ files.csv.rows[1].Value = Null
    /\ files.csv.rows[2] = BareHeaderLine
    /\ Len(vadf.rows) = 1
    /\ vadf.rows[1].Class = "Bonds"

\* C13: post_process adds, removes and reorders no row and leaves the Account,
\* Symbol, Value and % of Portfolio of every row as they were; it changes a
\* Name only from missing to "None", and only in fixed mode; it leaves the
\* Class Map and the Asset Map as they were; and a row that is no subtotal or
\* total, whose Class is no Class Map key, whose Name is no Asset Map Name and
\* which the fixed-income rule does not match keeps its Class.
C13_Frame ==
    [][pc = "post_process" =>
        /\ cmdf' = cmdf
        /\ amdf' = amdf
        /\ pc' = "write_candidates" =>
              /\ vadf'.cols = vadf.cols
              /\ Len(vadf'.rows) = Len(vadf.rows)
              /\ \A i \in DOMAIN vadf.rows :
                    LET before == vadf.rows[i]
                        after == vadf'.rows[i]
                    IN  /\ DOMAIN after = DOMAIN before
                        /\ \A c \in DOMAIN before \ {"Class", "Name"} : after[c] = before[c]
                        /\ \/ after.Name = before.Name
                           \/ args.fixed /\ before.Name = Null /\ after.Name = "None"
                        /\ ( /\ ~IsStructural(before)
                              /\ ~IsIn(before.Class, cmdf.rows, "Class")
                              /\ ~IsIn(after.Name, amdf.rows, "Name")
                              /\ ~(args.fixed /\ FixedRegexSearch(after.Name)) )
                           => after.Class = before.Class
      ]_vars

\* C13 witness: in fixed mode, with a Class Map and an Asset Map that both have
\* an entry, a holding without a Name that neither map nor the fixed-income
\* rule matches is returned with Name "None" and the Class it came with
C13_Witness ==
    /\ pc = "write_candidates"
    /\ args.fixed
    /\ cmdf.rows # <<>>
    /\ amdf.rows # <<>>
    /\ Len(files.csv.rows) = 1
    /\ files.csv.rows[1]["Fund Name"] = Null
    /\ Len(vadf.rows) = 1
    /\ vadf.rows[1].Name = "None"
    /\ vadf.rows[1].Account = "Other bonds"
    /\ vadf.rows[1].Symbol = "VB"
    /\ vadf.rows[1].Class = "Other bonds"

=============================================================================
